---- MODULE Spec2Model ----
(***************************************************************************)
(* A model of the WebDAV file system provider of src/scripts/webdav_fs.js: *)
(* the WebDAVFS object (its three maps), the host's mount table, the       *)
(* persisted mount records, the remote server, and the asynchronous        *)
(* handlers.  Every `await` of a handler is a yield point: the call is     *)
(* handled by its callee when it is issued, and the handler's continuation *)
(* runs in a later step, so handlers interleave at their awaits.           *)
(***************************************************************************)
EXTENDS Integers, Sequences, FiniteSets, TLC

(* ------------------------------ bounds --------------------------------- *)

\* Provider requests issued to a mounted file system in one behaviour.
MaxRequests == 3
\* Calls (mount, resumeMounts, provider requests) issued in one behaviour
\* that starts at construction.
MaxCalls == 2
\* Requests that may be in flight (suspended at an await) at the same time.
MaxInflight == 2
\* Remote calls that fail for a reason outside the server state (network).
MaxFaults == 1
\* The host's open-request identifiers are 1..MaxReqId.
MaxReqId == 2
\* Largest byte count of a chunk or a truncate length.
MaxLen == 2

Slots == 1..MaxInflight
ReqIds == 1..MaxReqId

(* ------------------------- mount configurations ------------------------ *)

\* Mount configurations { name, url, username, password } as entered in the
\* mount window (window.js, lines 10-22).  CfgA and CfgB differ in url and
\* username and still get the same file system id.
CfgA == [name |-> "A", url |-> "h/d", username |-> "u", password |-> "p"]
CfgB == [name |-> "B", url |-> "d", username |-> "u/h", password |-> "p"]
CfgC == [name |-> "C", url |-> "d", username |-> "u", password |-> "p"]
Configs == {CfgA, CfgB, CfgC}

createFileSystemID(url, username) == "webdavfs://" \o username \o "/" \o url

IdOf(cfg) == createFileSystemID(cfg.url, cfg.username)
FsIds == {IdOf(c) : c \in Configs}

(* ------------------------------- paths --------------------------------- *)

Root == "/"
DirPaths == {"/", "/a"}
FilePaths == {"/a/b", "/a/c"}
AllPaths == DirPaths \cup FilePaths

\* Index of the last "/" of a path (String.prototype.lastIndexOf, 1-based).
RECURSIVE LastSlashFrom(_, _)
LastSlashFrom(p, i) ==
  IF i = 0 THEN 0
  ELSE IF SubSeq(p, i, i) = "/" THEN i ELSE LastSlashFrom(p, i - 1)

LastSlash(p) == LastSlashFrom(p, Len(p))

Basename(p) == SubSeq(p, LastSlash(p) + 1, Len(p))

\* The directory a path is a child of; the root has none.
ParentOf(p) ==
  IF p = Root THEN "" ELSE IF LastSlash(p) = 1 THEN Root
  ELSE SubSeq(p, 1, LastSlash(p) - 1)

ChildPath(dir, name) == IF dir = Root THEN Root \o name ELSE dir \o "/" \o name

IsUnder(q, p) == Len(q) > Len(p) /\ SubSeq(q, 1, Len(p) + 1) = p \o "/"

(* --------------------------- pure functions ---------------------------- *)

Padding == "000000000000000"

paddedIndex(index) ==
  LET s == Padding \o ToString(index)
      length == Len(Padding)
  IN SubSeq(s, Len(s) - length + 1, Len(s))

uploadPath(uuid, offset, end) ==
  "/" \o uuid \o "/" \o paddedIndex(offset) \o "-" \o paddedIndex(end)

MetadataFields == {"isDirectory", "name", "size", "modificationTime", "mimeType"}

\* new Date(lastmod)
Date(lastmod) == <<"Date", lastmod>>

fromStat(stat) ==
  [isDirectory |-> stat.type = "directory",
   name |-> stat.basename,
   size |-> stat.size,
   modificationTime |-> Date(stat.lastmod),
   mimeType |-> stat.mime]

\* The copy of metadata that keeps the keys options asks for; `want` is the
\* set of metadata keys whose option flag is truthy.
canonicalizedMetadata(metadata, want) ==
  [k \in (DOMAIN metadata) \cap want |-> metadata[k]]

(* ------------------------------ errors ---------------------------------- *)

Msg404 == "Request failed with status code 404"

Err404 == [name |-> "Error", message |-> Msg404]
Err401 == [name |-> "Error", message |-> "Request failed with status code 401"]
Err409 == [name |-> "Error", message |-> "Request failed with status code 409"]
ErrNetwork == [name |-> "Error", message |-> "Network Error"]
ErrThumbnail == [name |-> "Error", message |-> "Thumbnail not supported"]
ErrExists == [name |-> "Error", message |-> "EXISTS"]
ErrHostNotFound == [name |-> "Error", message |-> "NOT_FOUND"]
ReferenceError(id) == [name |-> "ReferenceError", message |-> id \o " is not defined"]
TypeError == [name |-> "TypeError", message |-> "Cannot read properties of undefined"]

Ok(v) == [ok |-> TRUE, val |-> v]
Fail(e) == [ok |-> FALSE, error |-> e]

(* ------------------------------- maps ----------------------------------- *)

\* JavaScript objects used as maps: functions whose domain is the key set.
EmptyMap == <<>>
Has(m, k) == k \in DOMAIN m
MapPut(m, k, v) == [x \in (DOMAIN m) \cup {k} |-> IF x = k THEN v ELSE m[x]]
MapDel(m, k) == [x \in (DOMAIN m) \ {k} |-> m[x]]

\* The value of an absent property.
Undefined == [undefined |-> TRUE]

NoReq == [kind |-> "none"]
NoStorage == [defined |-> FALSE, recs |-> <<>>]

\* A request as it is delivered: nothing of its handler has run.
NewReq(kind, options) ==
  [kind |-> kind, pc |-> "start", calls |-> <<>>, o |-> options,
   reply |-> Undefined, loc |-> Undefined]

(* --------------------------- MetadataCache ------------------------------ *)

\* Two sub-caches: directory path -> the listing stored for it, and entry
\* path -> its metadata.  Storing a listing also records each child's entry.
NewMetadataCache == [listing |-> EmptyMap, entry |-> EmptyMap]

RECURSIVE PutEntries(_, _, _, _)
PutEntries(entry, dir, list, i) ==
  IF i > Len(list) THEN entry
  ELSE PutEntries(MapPut(entry, ChildPath(dir, list[i].name), list[i]),
                  dir, list, i + 1)

CachePut(cache, directoryPath, metadataList) ==
  [listing |-> MapPut(cache.listing, directoryPath, metadataList),
   entry |-> PutEntries(cache.entry, directoryPath, metadataList, 1)]

CacheGet(cache, entryPath) ==
  LET dir == ParentOf(entryPath)
      listed == /\ Has(cache.listing, dir)
                /\ \E i \in 1..Len(cache.listing[dir]) :
                      cache.listing[dir][i].name = Basename(entryPath)
  IN [directoryExists |-> listed,
      fileExists |-> Has(cache.entry, entryPath),
      metadata |-> IF Has(cache.entry, entryPath)
                   THEN cache.entry[entryPath] ELSE Undefined]

\* Evicts the path from both sub-caches, and nothing else.
CacheRemove(cache, entryPath) ==
  [listing |-> MapDel(cache.listing, entryPath),
   entry |-> MapDel(cache.entry, entryPath)]

(* ---------------------------- remote server ----------------------------- *)

\* One server per file system: the tree below the client's base url, and the
\* staging containers of the chunked upload convention.
NoNode == [type |-> "none"]
DirNode == [type |-> "directory"]
FileNode(content) == [type |-> "file", content |-> content]

Bytes == {1, 2}
Contents == UNION {[1..n -> Bytes] : n \in 0..MaxLen}

StatOf(p, node) ==
  [basename |-> Basename(p),
   lastmod |-> "Thu, 01 Jan 1970 00:00:00 GMT",
   size |-> IF node.type = "file" THEN Len(node.content) ELSE 0,
   type |-> node.type,
   mime |-> IF node.type = "file" THEN "application/octet-stream" ELSE ""]

Exists(files, p) == p = Root \/ (p \in AllPaths /\ files[p].type # "none")
IsDir(files, p) == p = Root \/ (p \in AllPaths /\ files[p].type = "directory")

\* The children of a directory in the order the server lists them.
PathOrder == <<"/a", "/a/b", "/a/c">>

RECURSIVE ListFrom(_, _, _)
ListFrom(files, dir, i) ==
  IF i > Len(PathOrder) THEN <<>>
  ELSE LET p == PathOrder[i]
       IN (IF ParentOf(p) = dir /\ Exists(files, p)
           THEN <<StatOf(p, files[p])>> ELSE <<>>) \o ListFrom(files, dir, i + 1)

DigitVal(c) ==
  CASE c = "0" -> 0 [] c = "1" -> 1 [] c = "2" -> 2 [] c = "3" -> 3
    [] c = "4" -> 4 [] c = "5" -> 5 [] c = "6" -> 6 [] c = "7" -> 7
    [] c = "8" -> 8 [] c = "9" -> 9

RECURSIVE ParseInt(_)
ParseInt(s) ==
  IF Len(s) = 0 THEN 0
  ELSE 10 * ParseInt(SubSeq(s, 1, Len(s) - 1)) + DigitVal(SubSeq(s, Len(s), Len(s)))

\* The offset a chunk object's name states: the digits before the "-".
ChunkOffset(name) == ParseInt(SubSeq(name, 1, Len(Padding)))

\* Server-side assembly of a staging container: its chunk objects joined in
\* the order of their names.
RECURSIVE Assemble(_)
Assemble(chunks) ==
  IF DOMAIN chunks = {} THEN <<>>
  ELSE LET first == CHOOSE n \in DOMAIN chunks :
                      \A m \in DOMAIN chunks : ChunkOffset(n) <= ChunkOffset(m)
       IN chunks[first] \o Assemble(MapDel(chunks, first))

NewServer(files) == [files |-> files, staging |-> EmptyMap]

\* What the server does with one call and what it answers.
Serve(srv, call) ==
  LET files == srv.files
      staging == srv.staging
      p == call.path
      same(r) == [srv |-> srv, reply |-> r]
  IN
  CASE call.op = "list" ->
         same(IF IsDir(files, p) THEN Ok(ListFrom(files, p, 1)) ELSE Fail(Err404))
    [] call.op = "stat" ->
         same(IF p = Root THEN Ok(StatOf(p, DirNode))
              ELSE IF Exists(files, p) THEN Ok(StatOf(p, files[p]))
              ELSE Fail(Err404))
    [] call.op = "get" ->
         same(IF p \in AllPaths /\ files[p].type = "file"
              THEN Ok(files[p].content) ELSE Fail(Err404))
    [] call.op = "put" ->
         IF p \in AllPaths \ {Root}
         THEN IF IsDir(files, ParentOf(p)) /\ files[p].type # "directory"
              THEN [srv |-> [srv EXCEPT !.files[p] = FileNode(call.data)],
                    reply |-> Ok(Undefined)]
              ELSE same(Fail(Err409))
         ELSE IF Has(staging, ParentOf(p))
              THEN [srv |-> [srv EXCEPT !.staging =
                               MapPut(staging, ParentOf(p),
                                      MapPut(staging[ParentOf(p)], Basename(p), call.data))],
                    reply |-> Ok(Undefined)]
              ELSE same(Fail(Err409))
    [] call.op = "mkcol" ->
         IF p \in AllPaths \ {Root}
         THEN IF IsDir(files, ParentOf(p)) /\ ~Exists(files, p)
              THEN [srv |-> [srv EXCEPT !.files[p] = DirNode], reply |-> Ok(Undefined)]
              ELSE same(Fail(Err409))
         ELSE IF p # Root /\ ParentOf(p) = Root /\ ~Has(staging, p)
              THEN [srv |-> [srv EXCEPT !.staging = MapPut(staging, p, EmptyMap)],
                    reply |-> Ok(Undefined)]
              ELSE same(Fail(Err409))
    [] call.op = "delete" ->
         IF p # Root /\ Exists(files, p)
         THEN [srv |-> [srv EXCEPT !.files =
                          [q \in AllPaths |->
                             IF q = p \/ IsUnder(q, p) THEN NoNode ELSE files[q]]],
               reply |-> Ok(Undefined)]
         ELSE same(Fail(Err404))
    [] call.op \in {"copy", "move"} ->
         LET t == call.to
             container == ParentOf(p)
         IN IF p \in FilePaths /\ Exists(files, p)
            THEN IF t \in FilePaths /\ IsDir(files, ParentOf(t)) /\ t # p
                 THEN [srv |-> [srv EXCEPT !.files =
                                  [q \in AllPaths |->
                                     IF q = t THEN files[p]
                                     ELSE IF q = p /\ call.op = "move" THEN NoNode
                                     ELSE files[q]]],
                       reply |-> Ok(Undefined)]
                 ELSE same(Fail(Err409))
            ELSE IF /\ call.op = "move" /\ Basename(p) = ".file"
                    /\ Has(staging, container)
                 THEN IF t \in FilePaths /\ IsDir(files, ParentOf(t))
                      THEN [srv |-> [files |-> [files EXCEPT
                                                  ![t] = FileNode(Assemble(staging[container]))],
                                     staging |-> MapDel(staging, container)],
                            reply |-> Ok(Undefined)]
                      ELSE same(Fail(Err409))
                 ELSE same(Fail(Err404))

(* ------------------------------- state ---------------------------------- *)

VARIABLES
  hostMounted,        \* browser.fileSystemProvider: the registered file system ids
  hostOpen,           \* the host's open files: <<fileSystemId, openRequestId>> ->
                      \* the chunks it has written to the file
  storage,            \* browser.storage.local: the mountedCredentials key
  reachable,          \* the accounts whose server answers and accepts the password
  remote,             \* account -> server state
  webDAVClientMap,    \* #webDAVClientMap[fileSystemId] => client (its account)
  openedFilesMap,     \* #openedFilesMap[openRequestId] => { filePath, mode, uuid }
  openedFsKeys,       \* the file system ids that are keys of #openedFilesMap
  metadataCacheMap,   \* #metadataCacheMap[fileSystemId] => MetadataCache
  nextUuid,           \* uuidv1(): the identifiers handed out so far
  reqs,               \* slot -> the call suspended there
  done,               \* the call that completed last, with its outcome
  budget,             \* calls that may still be issued
  faults              \* network faults so far

vars == <<budget, reqs, faults, nextUuid, done, hostMounted, hostOpen, storage,
          reachable, remote, webDAVClientMap, openedFilesMap, openedFsKeys,
          metadataCacheMap>>

\* The state a handler step reads and writes.
World ==
  [host |-> hostMounted, storage |-> storage, reachable |-> reachable,
   remote |-> remote, clients |-> webDAVClientMap, opened |-> openedFilesMap,
   openedFs |-> openedFsKeys, caches |-> metadataCacheMap, uuid |-> nextUuid]

\* What a completed call was, in short.
Brief(d) ==
  IF d.req.kind = "none" THEN [kind |-> "none"]
  ELSE [kind |-> d.req.kind, o |-> d.req.o, ok |-> d.outcome.ok,
        calls |-> Len(d.req.calls)]

\* A call of mount or resumeMounts, or an unmount request, as it is made.  `at`
\* is read by no handler: it records the host's mount table at the call, whether the
\* constructor's #resume had completed by then, and the call that had
\* completed last.
NewCall(kind, options) ==
  [kind |-> kind, pc |-> "start", o |-> options, reply |-> Undefined,
   calls |-> <<>>, loc |-> Undefined,
   at |-> [host |-> hostMounted, resumed |-> reqs[0].kind = "none",
           after |-> Brief(done)]]

(* ----------------------- results of a handler step ---------------------- *)

Return(v) == [ok |-> TRUE, defined |-> TRUE, val |-> v]
ReturnNothing == [ok |-> TRUE, defined |-> FALSE, val |-> <<>>]
Throw(e) == [ok |-> FALSE, error |-> e]

\* The handler suspends at an await; the awaited call `call` was answered
\* `reply`, which the continuation at `pc` will read.
Await(w, r, pc, call, reply, loc) ==
  [w |-> w, susp |-> TRUE,
   req |-> [r EXCEPT !.pc = pc, !.reply = reply, !.calls = Append(@, call),
                     !.loc = loc]]

\* The handler's promise settles.
End(w, r, outcome) == [w |-> w, susp |-> FALSE, req |-> r, outcome |-> outcome]

\* A call of the WebDAV client `client`: what the server of that account does
\* and answers; `fault` is a failure of the network.
RemoteCall(w, client, call, fault) ==
  IF fault THEN [srv |-> w.remote[client], reply |-> Fail(ErrNetwork)]
  ELSE IF client \notin w.reachable
       THEN [srv |-> w.remote[client], reply |-> Fail(Err401)]
       ELSE Serve(w.remote[client], call)

\* The answer x of the server reaches the awaiting handler.
AwaitAnswer(w, r, pc, client, call, x, loc) ==
  Await([w EXCEPT !.remote[client] = x.srv], r, pc, call, x.reply, loc)

AwaitRemote(w, r, pc, client, call, fault, loc) ==
  AwaitAnswer(w, r, pc, client, call, RemoteCall(w, client, call, fault), loc)

(* -------------------------- persisted records --------------------------- *)

\* mountedCredentials is an object: its keys keep their insertion order.
KeyIndex(recs, key) ==
  IF \E i \in 1..Len(recs) : recs[i].key = key
  THEN CHOOSE i \in 1..Len(recs) : recs[i].key = key ELSE 0

ObjectSet(recs, key, value) ==
  IF KeyIndex(recs, key) = 0 THEN Append(recs, [key |-> key, value |-> value])
  ELSE [recs EXCEPT ![KeyIndex(recs, key)] = [key |-> key, value |-> value]]

ObjectDelete(recs, key) == SelectSeq(recs, LAMBDA e : e.key # key)

ObjectValues(recs) == [i \in 1..Len(recs) |-> recs[i].value]

\* storeMountedCredential up to its storage.set: the object it writes, `got`
\* being what its storage.get returned.
storeMountedCredential(got, fileSystemId, credential) ==
  LET mountedCredentials == IF got.defined THEN got.recs ELSE <<>>
  IN [defined |-> TRUE, recs |-> ObjectSet(mountedCredentials, fileSystemId, credential)]

\* removeMountedCredential up to its storage.set (not reached when the key
\* was never written).
removeMountedCredential(got, fileSystemId) ==
  [defined |-> TRUE, recs |-> ObjectDelete(got.recs, fileSystemId)]

getMountedCredentials(got) == ObjectValues(IF got.defined THEN got.recs ELSE <<>>)

(* ------------------------------ mounting -------------------------------- *)

\* WebDAV.createClient(url, { username, password }): the account it talks to.
createClient(url, username, password) ==
  CHOOSE c \in Configs :
    c.url = url /\ c.username = username /\ c.password = password

\* isMounted answering that nothing is mounted.
isMounted_never(host, url, username) == FALSE

\* browser.fileSystemProvider.get(fileSystemId, resolve) ? true : false
isMounted(host, url, username) == createFileSystemID(url, username) \in host

\* browser.fileSystemProvider.mount: fails when the id is registered already.
HostMount(w, r, pc, fileSystemId, loc) ==
  IF fileSystemId \in w.host
  THEN Await(w, r, pc, [op |-> "host.mount"], Fail(ErrExists), loc)
  ELSE Await([w EXCEPT !.host = @ \cup {fileSystemId}], r, pc,
             [op |-> "host.mount"], Ok(Undefined), loc)

\* mount installing its adapter and cache whatever the host answered.
mount_installsAnyway(w, r, fault) ==
  LET options == r.o
      fileSystemId == createFileSystemID(options.url, options.username)
  IN
  CASE r.pc = "start" ->
         Await(w, r, "isMounted", [op |-> "host.get"],
               Ok(isMounted(w.host, options.url, options.username)), Undefined)
    [] r.pc = "isMounted" ->
         IF r.reply.val THEN End(w, r, ReturnNothing)
         ELSE LET client == createClient(options.url, options.username, options.password)
              IN AwaitRemote(w, r, "list", client, [op |-> "list", path |-> "/"],
                             fault, [client |-> client])
    [] r.pc = "list" ->
         IF ~r.reply.ok THEN End(w, r, Throw(r.reply.error))
         ELSE HostMount(w, r, "hostMount", fileSystemId, r.loc)
    [] r.pc = "hostMount" ->
         Await([w EXCEPT !.clients = MapPut(@, fileSystemId, r.loc.client),
                         !.caches = MapPut(@, fileSystemId, NewMetadataCache)],
               r, "storageGet", [op |-> "storage.get"], w.storage, r.loc)
    [] r.pc = "storageGet" ->
         Await([w EXCEPT !.storage = storeMountedCredential(r.reply, fileSystemId, options)],
               r, "storageSet", [op |-> "storage.set"], Ok(Undefined), r.loc)
    [] r.pc = "storageSet" -> End(w, r, ReturnNothing)

\* mount going on to register whatever the listing answered.
mount_ignoresListing(w, r, fault) ==
  LET options == r.o
      fileSystemId == createFileSystemID(options.url, options.username)
  IN
  CASE r.pc = "start" ->
         Await(w, r, "isMounted", [op |-> "host.get"],
               Ok(isMounted(w.host, options.url, options.username)), Undefined)
    [] r.pc = "isMounted" ->
         IF r.reply.val THEN End(w, r, ReturnNothing)
         ELSE LET client == createClient(options.url, options.username, options.password)
              IN AwaitRemote(w, r, "list", client, [op |-> "list", path |-> "/"],
                             fault, [client |-> client])
    [] r.pc = "list" -> HostMount(w, r, "hostMount", fileSystemId, r.loc)
    [] r.pc = "hostMount" ->
         IF ~r.reply.ok THEN End(w, r, Throw(r.reply.error))
         ELSE Await([w EXCEPT !.clients = MapPut(@, fileSystemId, r.loc.client),
                              !.caches = MapPut(@, fileSystemId, NewMetadataCache)],
                    r, "storageGet", [op |-> "storage.get"], w.storage, r.loc)
    [] r.pc = "storageGet" ->
         Await([w EXCEPT !.storage = storeMountedCredential(r.reply, fileSystemId, options)],
               r, "storageSet", [op |-> "storage.set"], Ok(Undefined), r.loc)
    [] r.pc = "storageSet" -> End(w, r, ReturnNothing)

mount(w, r, fault) ==
  LET options == r.o
      fileSystemId == createFileSystemID(options.url, options.username)
  IN
  CASE r.pc = "start" ->
         Await(w, r, "isMounted", [op |-> "host.get"],
               Ok(isMounted(w.host, options.url, options.username)), Undefined)
    [] r.pc = "isMounted" ->
         IF r.reply.val THEN End(w, r, ReturnNothing)
         ELSE LET client == createClient(options.url, options.username, options.password)
              IN AwaitRemote(w, r, "list", client, [op |-> "list", path |-> "/"],
                             fault, [client |-> client])
    [] r.pc = "list" ->
         IF ~r.reply.ok THEN End(w, r, Throw(r.reply.error))
         ELSE HostMount(w, r, "hostMount", fileSystemId, r.loc)
    [] r.pc = "hostMount" ->
         IF ~r.reply.ok THEN End(w, r, Throw(r.reply.error))
         ELSE Await([w EXCEPT !.clients = MapPut(@, fileSystemId, r.loc.client),
                              !.caches = MapPut(@, fileSystemId, NewMetadataCache)],
                    r, "storageGet", [op |-> "storage.get"], w.storage, r.loc)
    [] r.pc = "storageGet" ->
         Await([w EXCEPT !.storage = storeMountedCredential(r.reply, fileSystemId, options)],
               r, "storageSet", [op |-> "storage.set"], Ok(Undefined), r.loc)
    [] r.pc = "storageSet" -> End(w, r, ReturnNothing)

\* The body of resumeMounts' loop for record i, up to its first await.
ResumeRecord(w, r, list, i, fault) ==
  LET c == list[i]
      client == createClient(c.url, c.username, c.password)
  IN AwaitRemote(w, r, "list", client, [op |-> "list", path |-> "/"], fault,
                 [list |-> list, i |-> i, client |-> client])

resumeMounts(w, r, fault) ==
  CASE r.pc = "start" ->
         Await(w, r, "getCreds", [op |-> "storage.get"], w.storage, Undefined)
    [] r.pc = "getCreds" ->
         LET list == getMountedCredentials(r.reply)
         IN IF Len(list) = 0 THEN End(w, r, ReturnNothing)
            ELSE ResumeRecord(w, r, list, 1, fault)
    [] r.pc = "list" ->
         IF ~r.reply.ok THEN End(w, r, Throw(r.reply.error))
         ELSE LET c == r.loc.list[r.loc.i]
              IN HostMount(w, r, "hostMount", createFileSystemID(c.url, c.username), r.loc)
    [] r.pc = "hostMount" ->
         IF ~r.reply.ok THEN End(w, r, Throw(r.reply.error))
         ELSE LET c == r.loc.list[r.loc.i]
                  fileSystemId == createFileSystemID(c.url, c.username)
                  w1 == [w EXCEPT !.clients = MapPut(@, fileSystemId, r.loc.client),
                                  !.openedFs = @ \cup {fileSystemId},
                                  !.caches = MapPut(@, fileSystemId, NewMetadataCache)]
              IN IF r.loc.i = Len(r.loc.list) THEN End(w1, r, ReturnNothing)
                 ELSE ResumeRecord(w1, r, r.loc.list, r.loc.i + 1, fault)

\* #resume: every iteration of its loop runs without an await.
RECURSIVE ResumeAll(_, _, _)
ResumeAll(w, list, i) ==
  IF i > Len(list) THEN w
  ELSE LET c == list[i]
           fileSystemId == createFileSystemID(c.url, c.username)
       IN ResumeAll([w EXCEPT
                       !.clients = MapPut(@, fileSystemId,
                                          createClient(c.url, c.username, c.password)),
                       !.caches = MapPut(@, fileSystemId, NewMetadataCache)],
                    list, i + 1)

\* #resume installing nothing.
resume_nothing(w, r, fault) ==
  CASE r.pc = "start" ->
         Await(w, r, "getCreds", [op |-> "storage.get"], w.storage, Undefined)
    [] r.pc = "getCreds" -> End(w, r, ReturnNothing)

resume(w, r, fault) ==
  CASE r.pc = "start" ->
         Await(w, r, "getCreds", [op |-> "storage.get"], w.storage, Undefined)
    [] r.pc = "getCreds" ->
         End(ResumeAll(w, getMountedCredentials(r.reply), 1), r, ReturnNothing)

onUnmountRequested(w, r, fault) ==
  LET fileSystemId == r.o.fileSystemId
  IN
  CASE r.pc = "start" ->
         IF fileSystemId \in w.host
         THEN Await([w EXCEPT !.host = @ \ {fileSystemId}], r, "hostUnmount",
                    [op |-> "host.unmount"], Ok(Undefined), Undefined)
         ELSE Await(w, r, "hostUnmount", [op |-> "host.unmount"],
                    Fail(ErrHostNotFound), Undefined)
    [] r.pc = "hostUnmount" ->
         IF ~r.reply.ok THEN End(w, r, Throw(r.reply.error))
         ELSE Await([w EXCEPT !.clients = MapDel(@, fileSystemId),
                              !.openedFs = @ \ {fileSystemId},
                              !.caches = MapDel(@, fileSystemId)],
                    r, "storageGet", [op |-> "storage.get"], w.storage, Undefined)
    [] r.pc = "storageGet" ->
         IF ~r.reply.defined THEN End(w, r, ReturnNothing)
         ELSE Await([w EXCEPT !.storage = removeMountedCredential(r.reply, fileSystemId)],
                    r, "storageSet", [op |-> "storage.set"], Ok(Undefined), Undefined)
    [] r.pc = "storageSet" -> End(w, r, ReturnNothing)

(* --------------------------- provider handlers -------------------------- *)

\* The names a handler body can resolve: what it destructures from options
\* and declares itself.  No enclosing scope declares any other name.
OpenFileScope == {"options", "requestId", "filePath", "mode", "uuid"}
CreateDirectoryScope == {"options", "fileSystemId", "directoryPath"}

onReadDirectoryRequested(w, r, fault) ==
  LET fileSystemId == r.o.fileSystemId
      directoryPath == r.o.directoryPath
  IN
  CASE r.pc = "start" ->
         IF ~Has(w.clients, fileSystemId) THEN End(w, r, Throw(TypeError))
         ELSE AwaitRemote(w, r, "list", w.clients[fileSystemId],
                          [op |-> "list", path |-> directoryPath], fault, Undefined)
    [] r.pc = "list" ->
         IF ~r.reply.ok THEN End(w, r, Throw(r.reply.error))
         ELSE LET stats == r.reply.val
                  metadataList == [i \in 1..Len(stats) |-> fromStat(stats[i])]
                  result == [i \in 1..Len(metadataList) |->
                               canonicalizedMetadata(metadataList[i], r.o.want)]
              IN IF ~Has(w.caches, fileSystemId) THEN End(w, r, Throw(TypeError))
                 ELSE End([w EXCEPT !.caches[fileSystemId] =
                                      CachePut(@, directoryPath, metadataList)],
                          r, Return(<<result, FALSE>>))

\* onGetMetadataRequested answering from the cache when either flag is set.
onGetMetadataRequested_eitherFlag(w, r, fault) ==
  LET fileSystemId == r.o.fileSystemId
      entryPath == r.o.entryPath
  IN
  CASE r.pc = "start" ->
         IF r.o.thumbnail THEN End(w, r, Throw(ErrThumbnail))
         ELSE IF ~Has(w.caches, fileSystemId) THEN End(w, r, Throw(TypeError))
         ELSE LET cache == CacheGet(w.caches[fileSystemId], entryPath)
                  r1 == [r EXCEPT !.calls = Append(@, [op |-> "cache.get",
                                                       path |-> entryPath,
                                                       result |-> cache])]
              IN IF cache.directoryExists \/ cache.fileExists
                 THEN End(w, r1, Return(<<canonicalizedMetadata(cache.metadata, r.o.want)>>))
                 ELSE IF ~Has(w.clients, fileSystemId) THEN End(w, r1, Throw(TypeError))
                 ELSE AwaitRemote(w, r1, "stat", w.clients[fileSystemId],
                                  [op |-> "stat", path |-> entryPath], fault, Undefined)
    [] r.pc = "stat" ->
         IF ~r.reply.ok THEN End(w, r, Throw(r.reply.error))
         ELSE End(w, r, Return(<<canonicalizedMetadata(fromStat(r.reply.val), r.o.want)>>))

\* onGetMetadataRequested without its test of options.thumbnail.
onGetMetadataRequested_anyThumbnail(w, r, fault) ==
  LET fileSystemId == r.o.fileSystemId
      entryPath == r.o.entryPath
  IN
  CASE r.pc = "start" ->
         IF ~Has(w.caches, fileSystemId) THEN End(w, r, Throw(TypeError))
         ELSE LET cache == CacheGet(w.caches[fileSystemId], entryPath)
                  r1 == [r EXCEPT !.calls = Append(@, [op |-> "cache.get",
                                                       path |-> entryPath,
                                                       result |-> cache])]
              IN IF cache.directoryExists /\ cache.fileExists
                 THEN End(w, r1, Return(<<canonicalizedMetadata(cache.metadata, r.o.want)>>))
                 ELSE IF ~Has(w.clients, fileSystemId) THEN End(w, r1, Throw(TypeError))
                 ELSE AwaitRemote(w, r1, "stat", w.clients[fileSystemId],
                                  [op |-> "stat", path |-> entryPath], fault, Undefined)
    [] r.pc = "stat" ->
         IF ~r.reply.ok THEN End(w, r, Throw(r.reply.error))
         ELSE End(w, r, Return(<<canonicalizedMetadata(fromStat(r.reply.val), r.o.want)>>))

onGetMetadataRequested(w, r, fault) ==
  LET fileSystemId == r.o.fileSystemId
      entryPath == r.o.entryPath
  IN
  CASE r.pc = "start" ->
         IF r.o.thumbnail THEN End(w, r, Throw(ErrThumbnail))
         ELSE IF ~Has(w.caches, fileSystemId) THEN End(w, r, Throw(TypeError))
         ELSE LET cache == CacheGet(w.caches[fileSystemId], entryPath)
                  r1 == [r EXCEPT !.calls = Append(@, [op |-> "cache.get",
                                                       path |-> entryPath,
                                                       result |-> cache])]
              IN IF cache.directoryExists /\ cache.fileExists
                 THEN End(w, r1, Return(<<canonicalizedMetadata(cache.metadata, r.o.want)>>))
                 ELSE IF ~Has(w.clients, fileSystemId) THEN End(w, r1, Throw(TypeError))
                 ELSE AwaitRemote(w, r1, "stat", w.clients[fileSystemId],
                                  [op |-> "stat", path |-> entryPath], fault, Undefined)
    [] r.pc = "stat" ->
         IF ~r.reply.ok THEN End(w, r, Throw(r.reply.error))
         ELSE End(w, r, Return(<<canonicalizedMetadata(fromStat(r.reply.val), r.o.want)>>))

\* uuidv1()
Uuid(n) == "u" \o ToString(n)

onOpenFileRequested(w, r, fault) ==
  LET requestId == r.o.requestId
      filePath == r.o.filePath
      mode == r.o.mode
  IN
  CASE r.pc = "start" ->
         LET uuid == Uuid(w.uuid + 1)
             w1 == [w EXCEPT !.uuid = @ + 1]
             \* { filePath, mode, uuid }; openedOn is not a property of the
             \* program's object: it records the mount the open was made on.
             handle == [filePath |-> filePath, mode |-> mode, uuid |-> uuid,
                        openedOn |-> r.o.fileSystemId]
         IN IF mode = "WRITE"
            THEN IF "fileSystemId" \notin OpenFileScope
                 THEN End(w1, r, Throw(ReferenceError("fileSystemId")))
                 ELSE IF ~Has(w1.clients, r.o.fileSystemId)
                 THEN End(w1, r, Throw(TypeError))
                 ELSE AwaitRemote(w1, r, "mkcol", w1.clients[r.o.fileSystemId],
                                  [op |-> "mkcol", path |-> "/" \o uuid], fault,
                                  [handle |-> handle])
            ELSE End([w1 EXCEPT !.opened = MapPut(@, requestId, handle)],
                     r, ReturnNothing)
    [] r.pc = "mkcol" ->
         IF ~r.reply.ok THEN End(w, r, Throw(r.reply.error))
         ELSE End([w EXCEPT !.opened = MapPut(@, requestId, r.loc.handle)],
                  r, ReturnNothing)

\* A close that discards the handle as soon as it has read it, and does not
\* look at what the move answered.
onCloseFileRequested_discardFirst(w, r, fault) ==
  LET fileSystemId == r.o.fileSystemId
      openRequestId == r.o.openRequestId
  IN
  CASE r.pc = "start" ->
         IF ~Has(w.opened, openRequestId) THEN End(w, r, Throw(TypeError))
         ELSE LET h == w.opened[openRequestId]
                  w1 == [w EXCEPT !.opened = MapDel(@, openRequestId)]
              IN IF h.mode = "WRITE"
                 THEN IF ~Has(w.clients, fileSystemId) THEN End(w, r, Throw(TypeError))
                      ELSE AwaitRemote(w1, r, "move", w.clients[fileSystemId],
                                       [op |-> "move", path |-> "/" \o h.uuid \o "/.file",
                                        to |-> h.filePath], fault, h)
                 ELSE End(w1, [r EXCEPT !.loc = h], ReturnNothing)
    [] r.pc = "move" -> End(w, r, ReturnNothing)

onCloseFileRequested(w, r, fault) ==
  LET fileSystemId == r.o.fileSystemId
      openRequestId == r.o.openRequestId
  IN
  CASE r.pc = "start" ->
         IF ~Has(w.opened, openRequestId) THEN End(w, r, Throw(TypeError))
         ELSE LET h == w.opened[openRequestId]
              IN IF h.mode = "WRITE"
                 THEN IF ~Has(w.clients, fileSystemId) THEN End(w, r, Throw(TypeError))
                      ELSE AwaitRemote(w, r, "move", w.clients[fileSystemId],
                                       [op |-> "move", path |-> "/" \o h.uuid \o "/.file",
                                        to |-> h.filePath], fault, h)
                 ELSE End([w EXCEPT !.opened = MapDel(@, openRequestId)],
                          [r EXCEPT !.loc = h], ReturnNothing)
    [] r.pc = "move" ->
         IF ~r.reply.ok THEN End(w, r, Throw(r.reply.error))
         ELSE End([w EXCEPT !.opened = MapDel(@, openRequestId)], r, ReturnNothing)

\* The body a ranged GET answers: fetch resolves whatever the status is.
RangeBody(srv, p, offset, length) ==
  IF p \in AllPaths /\ srv.files[p].type = "file"
  THEN LET c == srv.files[p].content
           last == IF offset + length < Len(c) THEN offset + length ELSE Len(c)
       IN SubSeq(c, offset + 1, last)
  ELSE <<>>

onReadFileRequested(w, r, fault) ==
  LET fileSystemId == r.o.fileSystemId
      openRequestId == r.o.openRequestId
  IN
  CASE r.pc = "start" ->
         IF ~Has(w.opened, openRequestId) THEN End(w, r, Throw(TypeError))
         ELSE IF ~Has(w.clients, fileSystemId) THEN End(w, r, Throw(TypeError))
         ELSE LET filePath == w.opened[openRequestId].filePath
                  client == w.clients[fileSystemId]
                  call == [op |-> "fetch", path |-> filePath,
                           range |-> <<r.o.offset, r.o.offset + r.o.length - 1>>]
              IN IF fault \/ client \notin w.reachable
                 THEN Await(w, r, "fetch", call, Fail(TypeError), Undefined)
                 ELSE Await(w, r, "fetch", call,
                            Ok(RangeBody(w.remote[client], filePath, r.o.offset,
                                         r.o.length)), Undefined)
    [] r.pc = "fetch" ->
         IF ~r.reply.ok THEN End(w, r, Throw(r.reply.error))
         ELSE End(w, r, Return(<<r.reply.val, FALSE>>))

onCreateDirectoryRequested(w, r, fault) ==
  LET fileSystemId == r.o.fileSystemId
      directoryPath == r.o.directoryPath
  IN
  CASE r.pc = "start" ->
         IF "recursive" \notin CreateDirectoryScope
         THEN End(w, r, Throw(ReferenceError("recursive")))
         ELSE IF ~Has(w.clients, fileSystemId) THEN End(w, r, Throw(TypeError))
         ELSE AwaitRemote(w, r, "mkcol", w.clients[fileSystemId],
                          [op |-> "mkcol", path |-> directoryPath], fault, Undefined)
    [] r.pc = "mkcol" ->
         IF ~r.reply.ok THEN End(w, r, Throw(r.reply.error))
         ELSE End(w, r, ReturnNothing)

\* client.deleteFile is not awaited: the handler runs to its end in one step
\* and the call's answer reaches nobody (r.loc keeps it for the record).
\* What follows client.deleteFile(entryPath) in onDeleteEntryRequested; x is
\* the state and the call record once the call has been issued.
AfterDeleteFile(x, fileSystemId, entryPath) ==
  IF ~Has(x.w.caches, fileSystemId)
  THEN End(x.w, [x.req EXCEPT !.loc = [unawaited |-> x.req.reply],
                              !.reply = Undefined], Throw(TypeError))
  ELSE End([x.w EXCEPT !.caches[fileSystemId] = CacheRemove(@, entryPath)],
           [x.req EXCEPT !.loc = [unawaited |-> x.req.reply], !.reply = Undefined],
           ReturnNothing)

onDeleteEntryRequested(w, r, fault) ==
  LET fileSystemId == r.o.fileSystemId
      entryPath == r.o.entryPath
  IN IF ~Has(w.clients, fileSystemId) THEN End(w, r, Throw(TypeError))
     ELSE AfterDeleteFile(AwaitRemote(w, r, "end", w.clients[fileSystemId],
                                      [op |-> "delete", path |-> entryPath],
                                      fault, Undefined),
                          fileSystemId, entryPath)

onCreateFileRequested(w, r, fault) ==
  LET fileSystemId == r.o.fileSystemId
      filePath == r.o.filePath
  IN
  CASE r.pc = "start" ->
         IF ~Has(w.clients, fileSystemId) THEN End(w, r, Throw(TypeError))
         ELSE AwaitRemote(w, r, "put", w.clients[fileSystemId],
                          [op |-> "put", path |-> filePath, data |-> <<>>],
                          fault, Undefined)
    [] r.pc = "put" ->
         IF ~r.reply.ok THEN End(w, r, Throw(r.reply.error))
         ELSE IF ~Has(w.caches, fileSystemId) THEN End(w, r, Throw(TypeError))
         ELSE End([w EXCEPT !.caches[fileSystemId] = CacheRemove(@, filePath)],
                  r, ReturnNothing)

\* CopyOrMove evicting the source path only.
CopyOrMove_sourceOnly(w, r, fault, op) ==
  LET fileSystemId == r.o.fileSystemId
      sourcePath == r.o.sourcePath
      targetPath == r.o.targetPath
  IN
  CASE r.pc = "start" ->
         IF ~Has(w.clients, fileSystemId) THEN End(w, r, Throw(TypeError))
         ELSE AwaitRemote(w, r, op, w.clients[fileSystemId],
                          [op |-> op, path |-> sourcePath, to |-> targetPath],
                          fault, Undefined)
    [] r.pc = op ->
         IF ~r.reply.ok THEN End(w, r, Throw(r.reply.error))
         ELSE IF ~Has(w.caches, fileSystemId) THEN End(w, r, Throw(TypeError))
         ELSE End([w EXCEPT !.caches[fileSystemId] = CacheRemove(@, sourcePath)],
                  r, ReturnNothing)

\* onCopyEntryRequested and onMoveEntryRequested differ in the client call.
CopyOrMove(w, r, fault, op) ==
  LET fileSystemId == r.o.fileSystemId
      sourcePath == r.o.sourcePath
      targetPath == r.o.targetPath
  IN
  CASE r.pc = "start" ->
         IF ~Has(w.clients, fileSystemId) THEN End(w, r, Throw(TypeError))
         ELSE AwaitRemote(w, r, op, w.clients[fileSystemId],
                          [op |-> op, path |-> sourcePath, to |-> targetPath],
                          fault, Undefined)
    [] r.pc = op ->
         IF ~r.reply.ok THEN End(w, r, Throw(r.reply.error))
         ELSE IF ~Has(w.caches, fileSystemId) THEN End(w, r, Throw(TypeError))
         ELSE End([w EXCEPT !.caches[fileSystemId] =
                              CacheRemove(CacheRemove(@, sourcePath), targetPath)],
                  r, ReturnNothing)

onCopyEntryRequested(w, r, fault) == CopyOrMove(w, r, fault, "copy")

onMoveEntryRequested(w, r, fault) == CopyOrMove(w, r, fault, "move")

\* putFileContents is called with the sliced buffer where the path belongs
\* and with no data: the call addresses String(buffer).
onTruncateRequested(w, r, fault) ==
  LET fileSystemId == r.o.fileSystemId
      filePath == r.o.filePath
  IN
  CASE r.pc = "start" ->
         IF ~Has(w.clients, fileSystemId) THEN End(w, r, Throw(TypeError))
         ELSE AwaitRemote(w, r, "get", w.clients[fileSystemId],
                          [op |-> "get", path |-> filePath], fault, Undefined)
    [] r.pc = "get" ->
         IF ~r.reply.ok THEN End(w, r, Throw(r.reply.error))
         ELSE IF ~Has(w.clients, fileSystemId) THEN End(w, r, Throw(TypeError))
         ELSE AwaitRemote(w, r, "put", w.clients[fileSystemId],
                          [op |-> "put", path |-> "[object ArrayBuffer]",
                           data |-> Undefined], fault, [buffer |-> r.reply.val])
    [] r.pc = "put" ->
         IF ~r.reply.ok THEN End(w, r, Throw(r.reply.error))
         ELSE End(w, r, ReturnNothing)

onWriteFileRequested(w, r, fault) ==
  LET fileSystemId == r.o.fileSystemId
      openRequestId == r.o.openRequestId
      offset == r.o.offset
      data == r.o.data
  IN
  CASE r.pc = "start" ->
         IF ~Has(w.opened, openRequestId) THEN End(w, r, Throw(TypeError))
         ELSE IF ~Has(w.clients, fileSystemId) THEN End(w, r, Throw(TypeError))
         ELSE LET uuid == w.opened[openRequestId].uuid
                  end == offset + Len(data)
              IN AwaitRemote(w, r, "put", w.clients[fileSystemId],
                             [op |-> "put", path |-> uploadPath(uuid, offset, end),
                              data |-> data], fault, Undefined)
    [] r.pc = "put" ->
         IF ~r.reply.ok THEN End(w, r, Throw(r.reply.error))
         ELSE End(w, r, ReturnNothing)

onAbortRequested(w, r, fault) == End(w, r, ReturnNothing)

(* ------------------------------ dispatcher ------------------------------ *)

Handler(w, r, fault) ==
  CASE r.kind = "mount" -> mount(w, r, fault)
    [] r.kind = "resumeMounts" -> resumeMounts(w, r, fault)
    [] r.kind = "#resume" -> resume(w, r, fault)
    [] r.kind = "onUnmountRequested" -> onUnmountRequested(w, r, fault)
    [] r.kind = "onReadDirectoryRequested" -> onReadDirectoryRequested(w, r, fault)
    [] r.kind = "onGetMetadataRequested" -> onGetMetadataRequested(w, r, fault)
    [] r.kind = "onOpenFileRequested" -> onOpenFileRequested(w, r, fault)
    [] r.kind = "onCloseFileRequested" -> onCloseFileRequested(w, r, fault)
    [] r.kind = "onReadFileRequested" -> onReadFileRequested(w, r, fault)
    [] r.kind = "onCreateDirectoryRequested" -> onCreateDirectoryRequested(w, r, fault)
    [] r.kind = "onDeleteEntryRequested" -> onDeleteEntryRequested(w, r, fault)
    [] r.kind = "onCreateFileRequested" -> onCreateFileRequested(w, r, fault)
    [] r.kind = "onCopyEntryRequested" -> onCopyEntryRequested(w, r, fault)
    [] r.kind = "onMoveEntryRequested" -> onMoveEntryRequested(w, r, fault)
    [] r.kind = "onTruncateRequested" -> onTruncateRequested(w, r, fault)
    [] r.kind = "onWriteFileRequested" -> onWriteFileRequested(w, r, fault)
    [] r.kind = "onAbortRequested" -> onAbortRequested(w, r, fault)

\* name.match(/^on/): the methods that get a listener.
IsProviderHandler(kind) == Len(kind) >= 2 /\ SubSeq(kind, 1, 2) = "on"

\* Reason passing the generic reason whatever the error.
Reason_alwaysFailed(error) == "FAILED"

\* The reason the listener's catch passes to errorCallback.  No handler
\* throws a String object.
Reason(error) ==
  LET reason == IF error.name = "String" THEN error.message ELSE "FAILED"
  IN IF error.message = Msg404 THEN "NOT_FOUND" ELSE reason

\* The callbacks the listener invokes when the handler's promise settles.
Listener(outcome) ==
  IF outcome.ok
  THEN <<[callback |-> "success",
          args |-> IF outcome.defined THEN outcome.val ELSE <<>>]>>
  ELSE <<[callback |-> "error", reason |-> Reason(outcome.error)]>>

Callbacks(kind, outcome) == IF IsProviderHandler(kind) THEN Listener(outcome) ELSE <<>>

(* ------------------------------- the host ------------------------------- *)

\* What the host does with its open files when a request has been answered.
HostAfter(open, r, outcome) ==
  CASE r.kind = "onOpenFileRequested" /\ outcome.ok ->
         MapPut(open, <<r.o.fileSystemId, r.o.requestId>>, {})
    [] r.kind = "onWriteFileRequested" /\ outcome.ok ->
         [open EXCEPT ![<<r.o.fileSystemId, r.o.openRequestId>>] =
            @ \cup {[offset |-> r.o.offset, data |-> r.o.data]}]
    [] r.kind = "onCloseFileRequested" ->
         MapDel(open, <<r.o.fileSystemId, r.o.openRequestId>>)
    [] r.kind = "onUnmountRequested" /\ outcome.ok ->
         [h \in {k \in DOMAIN open : k[1] # r.o.fileSystemId} |-> open[h]]
    [] OTHER -> open

\* The chunks the host had written to the file a close request closed.
Wrote(open, r) ==
  IF r.kind = "onCloseFileRequested" /\ Has(open, <<r.o.fileSystemId, r.o.openRequestId>>)
  THEN open[<<r.o.fileSystemId, r.o.openRequestId>>] ELSE {}

(* ------------------------------- actions -------------------------------- *)

SetWorld(w) ==
  /\ hostMounted' = w.host
  /\ storage' = w.storage
  /\ reachable' = w.reachable
  /\ remote' = w.remote
  /\ webDAVClientMap' = w.clients
  /\ openedFilesMap' = w.opened
  /\ openedFsKeys' = w.openedFs
  /\ metadataCacheMap' = w.caches
  /\ nextUuid' = w.uuid

NetworkOps == {"list", "stat", "get", "put", "mkcol", "delete", "copy", "move", "fetch"}

\* Whether the step from r to res issued a call over the network.
UsedNetwork(r, res) ==
  /\ Len(res.req.calls) > Len(r.calls)
  /\ res.req.calls[Len(res.req.calls)].op \in NetworkOps

\* One step of the call r in slot s, res being what its handler did: it ran to
\* its next await, or to its end, where the listener answers the host.
Exec(s, r, fault, res) ==
  /\ fault => (faults < MaxFaults /\ UsedNetwork(r, res))
  /\ faults' = IF fault THEN faults + 1 ELSE faults
  /\ SetWorld(res.w)
  /\ IF res.susp
     THEN /\ reqs' = [reqs EXCEPT ![s] = res.req]
          /\ UNCHANGED <<done, hostOpen>>
     ELSE /\ reqs' = [reqs EXCEPT ![s] = NoReq]
          /\ done' = [req |-> res.req, outcome |-> res.outcome,
                      callbacks |-> Callbacks(res.req.kind, res.outcome),
                      wrote |-> Wrote(hostOpen, res.req)]
          /\ hostOpen' = HostAfter(hostOpen, res.req, res.outcome)

FreeSlots == {s \in Slots : reqs[s].kind = "none"}
FreeSlot == CHOOSE s \in FreeSlots : \A t \in FreeSlots : s <= t

\* A new call r arrives and its handler runs up to its first await.
Issue(r, fault, res) ==
  /\ budget > 0
  /\ FreeSlots # {}
  /\ budget' = budget - 1
  /\ Exec(FreeSlot, r, fault, res)

\* The continuation of a suspended call runs.
Continue(s) ==
  /\ reqs[s].kind # "none"
  /\ UNCHANGED budget
  /\ \E fault \in BOOLEAN : Exec(s, reqs[s], fault, Handler(World, reqs[s], fault))

InFlight(kind, fs, id) ==
  \E s \in Slots :
    /\ reqs[s].kind = kind
    /\ reqs[s].o.fileSystemId = fs
    /\ (IF kind = "onOpenFileRequested" THEN reqs[s].o.requestId
        ELSE reqs[s].o.openRequestId) = id

\* The data of the write requests.
Chunks == {c \in Contents : Len(c) = MaxLen \/ c = <<1>>}
WantSets == {MetadataFields, {"name", "size"}}
Modes == {"READ", "WRITE"}

\* Each call below is delivered with its options and runs its handler.
Start(H(_, _, _), r) == \E fault \in BOOLEAN : Issue(r, fault, H(World, r, fault))

\* The mount window's request reaches mount(options).
Mount(cfg) ==
  /\ cfg \in Configs
  /\ Start(mount, NewCall("mount", cfg))

ResumeMounts ==
  /\ budget > 0
  /\ Start(resumeMounts, NewCall("resumeMounts", Undefined))

Unmount(fs) ==
  /\ fs \in hostMounted
  /\ Start(onUnmountRequested, NewCall("onUnmountRequested", [fileSystemId |-> fs]))

ReadDirectory(fs, dir, want) ==
  /\ fs \in hostMounted
  /\ Start(onReadDirectoryRequested,
           NewReq("onReadDirectoryRequested",
                  [fileSystemId |-> fs, directoryPath |-> dir, want |-> want]))

GetMetadata(fs, p, thumbnail, want) ==
  /\ fs \in hostMounted
  /\ Start(onGetMetadataRequested,
           NewReq("onGetMetadataRequested",
                  [fileSystemId |-> fs, entryPath |-> p, thumbnail |-> thumbnail,
                   want |-> want]))

OpenFile(fs, id, p, mode) ==
  /\ fs \in hostMounted
  /\ ~Has(hostOpen, <<fs, id>>)
  /\ ~InFlight("onOpenFileRequested", fs, id)
  /\ Start(onOpenFileRequested,
           NewReq("onOpenFileRequested",
                  [fileSystemId |-> fs, requestId |-> id, filePath |-> p,
                   mode |-> mode]))

CloseFile(fs, id) ==
  /\ fs \in hostMounted
  /\ Has(hostOpen, <<fs, id>>)
  /\ ~InFlight("onCloseFileRequested", fs, id)
  /\ Start(onCloseFileRequested,
           NewReq("onCloseFileRequested", [fileSystemId |-> fs, openRequestId |-> id]))

ReadFile(fs, id, offset, length) ==
  /\ fs \in hostMounted
  /\ Has(hostOpen, <<fs, id>>)
  /\ Start(onReadFileRequested,
           NewReq("onReadFileRequested",
                  [fileSystemId |-> fs, openRequestId |-> id, offset |-> offset,
                   length |-> length]))

\* The host's check of the handle's mode is not relied on: a write may
\* arrive for any open file.
WriteFile(fs, id, offset, data) ==
  /\ fs \in hostMounted
  /\ Has(hostOpen, <<fs, id>>)
  /\ Start(onWriteFileRequested,
           NewReq("onWriteFileRequested",
                  [fileSystemId |-> fs, openRequestId |-> id, offset |-> offset,
                   data |-> data]))

CreateDirectory(fs, dir) ==
  /\ fs \in hostMounted
  /\ Start(onCreateDirectoryRequested,
           NewReq("onCreateDirectoryRequested",
                  [fileSystemId |-> fs, directoryPath |-> dir]))

DeleteEntry(fs, p) ==
  /\ fs \in hostMounted
  /\ Start(onDeleteEntryRequested,
           NewReq("onDeleteEntryRequested", [fileSystemId |-> fs, entryPath |-> p]))

CreateFile(fs, p) ==
  /\ fs \in hostMounted
  /\ Start(onCreateFileRequested,
           NewReq("onCreateFileRequested", [fileSystemId |-> fs, filePath |-> p]))

CopyEntry(fs, src, dst) ==
  /\ fs \in hostMounted
  /\ Start(onCopyEntryRequested,
           NewReq("onCopyEntryRequested",
                  [fileSystemId |-> fs, sourcePath |-> src, targetPath |-> dst]))

MoveEntry(fs, src, dst) ==
  /\ fs \in hostMounted
  /\ Start(onMoveEntryRequested,
           NewReq("onMoveEntryRequested",
                  [fileSystemId |-> fs, sourcePath |-> src, targetPath |-> dst]))

Truncate(fs, p, length) ==
  /\ fs \in hostMounted
  /\ Start(onTruncateRequested,
           NewReq("onTruncateRequested",
                  [fileSystemId |-> fs, filePath |-> p, length |-> length]))

Abort(fs, id) ==
  /\ fs \in hostMounted
  /\ Start(onAbortRequested,
           NewReq("onAbortRequested",
                  [fileSystemId |-> fs, operationRequestId |-> id]))

(* --------------------------- specifications ----------------------------- *)

InitFiles ==
  [p \in AllPaths |->
     CASE p \in DirPaths -> DirNode
       [] p = "/a/b" -> FileNode(<<1, 2>>)
       [] OTHER -> NoNode]

NoDone == [req |-> NoReq, outcome |-> ReturnNothing, callbacks |-> <<>>, wrote |-> {}]

Record(cfg) == [key |-> IdOf(cfg), value |-> cfg]

\* The records an earlier run of the extension may have left behind.
InitStores ==
  {NoStorage,
   [defined |-> TRUE, recs |-> <<Record(CfgA), Record(CfgC)>>]}

InitReachable == {Configs, {CfgA, CfgB}, {CfgC}}

\* The state after construction: the maps are empty, the listeners are
\* assigned and #resume waits for the persisted records.  The host may have
\* kept the file systems of the persisted records or not.
Init ==
  /\ storage \in InitStores
  /\ hostMounted \in {{}, {storage.recs[i].key : i \in 1..Len(storage.recs)}}
  /\ hostOpen = EmptyMap
  /\ reachable \in InitReachable
  /\ remote = [c \in Configs |-> NewServer(InitFiles)]
  /\ webDAVClientMap = EmptyMap
  /\ openedFilesMap = EmptyMap
  /\ openedFsKeys = {}
  /\ metadataCacheMap = EmptyMap
  /\ nextUuid = 0
  /\ reqs = [s \in Slots \cup {0} |->
               IF s = 0
               THEN [kind |-> "#resume", pc |-> "getCreds", o |-> Undefined,
                     reply |-> storage, calls |-> <<[op |-> "storage.get"]>>,
                     loc |-> Undefined]
               ELSE NoReq]
  /\ done = NoDone
  /\ budget = MaxCalls
  /\ faults = 0

\* The continuation of the constructor's #resume.
Resume ==
  /\ reqs[0].kind = "#resume"
  /\ Continue(0)

Next ==
  \/ Resume
  \/ \E cfg \in Configs : Mount(cfg)
  \/ ResumeMounts
  \/ \E fs \in FsIds : Unmount(fs)
  \/ \E fs \in FsIds : OpenFile(fs, 1, "/a/b", "READ")
  \/ \E fs \in FsIds : CloseFile(fs, 1)
  \/ \E s \in Slots : Continue(s)

Spec == Init /\ [][Next]_vars

\* A file system mounted by mount(CfgA), its cache still empty.
InitMounted ==
  /\ storage = [defined |-> TRUE, recs |-> <<Record(CfgA)>>]
  /\ hostMounted = {IdOf(CfgA)}
  /\ hostOpen = EmptyMap
  /\ reachable = {CfgA}
  /\ remote = [c \in Configs |-> NewServer(InitFiles)]
  /\ webDAVClientMap = MapPut(EmptyMap, IdOf(CfgA), CfgA)
  /\ openedFilesMap = EmptyMap
  /\ openedFsKeys = {}
  /\ metadataCacheMap = MapPut(EmptyMap, IdOf(CfgA), NewMetadataCache)
  /\ nextUuid = 0
  /\ reqs = [s \in Slots \cup {0} |-> NoReq]
  /\ done = NoDone
  /\ budget = MaxRequests
  /\ faults = 0

NextFs ==
  \/ \E fs \in FsIds, dir \in DirPaths, want \in WantSets : ReadDirectory(fs, dir, want)
  \/ \E fs \in FsIds, p \in AllPaths, t \in BOOLEAN, want \in WantSets :
       GetMetadata(fs, p, t, want)
  \/ \E fs \in FsIds, id \in ReqIds, p \in FilePaths, m \in Modes : OpenFile(fs, id, p, m)
  \/ \E fs \in FsIds, id \in ReqIds : CloseFile(fs, id)
  \/ \E fs \in FsIds, id \in ReqIds, offset \in 0..1, n \in 1..MaxLen :
       ReadFile(fs, id, offset, n)
  \/ \E fs \in FsIds, id \in ReqIds, offset \in 0..1, data \in Chunks :
       WriteFile(fs, id, offset, data)
  \/ \E fs \in FsIds, dir \in DirPaths \ {Root} : CreateDirectory(fs, dir)
  \/ \E fs \in FsIds, p \in AllPaths \ {Root} : DeleteEntry(fs, p)
  \/ \E fs \in FsIds, p \in FilePaths : CreateFile(fs, p)
  \/ \E fs \in FsIds, src \in FilePaths, dst \in FilePaths : CopyEntry(fs, src, dst)
  \/ \E fs \in FsIds, src \in FilePaths, dst \in FilePaths : MoveEntry(fs, src, dst)
  \/ \E fs \in FsIds, p \in FilePaths, n \in 0..MaxLen : Truncate(fs, p, n)
  \/ \E fs \in FsIds, id \in ReqIds : Abort(fs, id)
  \/ \E s \in Slots : Continue(s)

SpecFs == InitMounted /\ [][NextFs]_vars

\* The extension once its start-up #resume has completed, the host having
\* kept the file systems of the persisted records.
InitResumed ==
  /\ storage \in InitStores
  /\ hostMounted = {storage.recs[i].key : i \in 1..Len(storage.recs)}
  /\ hostOpen = EmptyMap
  /\ reachable \in InitReachable
  /\ remote = [c \in Configs |-> NewServer(InitFiles)]
  /\ webDAVClientMap = IF storage = NoStorage THEN EmptyMap
                       ELSE MapPut(MapPut(EmptyMap, IdOf(CfgA), CfgA), IdOf(CfgC), CfgC)
  /\ openedFilesMap = EmptyMap
  /\ openedFsKeys = {}
  /\ metadataCacheMap = IF storage = NoStorage THEN EmptyMap
                        ELSE MapPut(MapPut(EmptyMap, IdOf(CfgA), NewMetadataCache),
                                    IdOf(CfgC), NewMetadataCache)
  /\ nextUuid = 0
  /\ reqs = [s \in Slots \cup {0} |-> NoReq]
  /\ done = NoDone
  /\ budget = MaxCalls
  /\ faults = 0

\* Calls of mount only, in every interleaving of their steps.
NextMounts ==
  \/ \E cfg \in Configs : Mount(cfg)
  \/ \E s \in Slots : Continue(s)

SpecMounts == InitResumed /\ [][NextMounts]_vars

(* ------------------------------ properties ------------------------------ *)

\* The last call to have completed, and how.
Completed(kind) == done.req.kind = kind
Succeeded(kind) == done.req.kind = kind /\ done.outcome.ok

\* What a getMetadata(p) request delivered in the current state would do up
\* to its first await (no thumbnail, every field wanted, no network failure).
GetMetadataNow(fs, p) ==
  onGetMetadataRequested(World,
                         NewReq("onGetMetadataRequested",
                                [fileSystemId |-> fs, entryPath |-> p,
                                 thumbnail |-> FALSE, want |-> MetadataFields]),
                         FALSE)

\* The step awaits a remote stat of p.
AwaitsStat(res, p) ==
  /\ res.susp
  /\ res.req.calls[Len(res.req.calls)] = [op |-> "stat", path |-> p]

MutatingKinds ==
  {"onDeleteEntryRequested", "onCreateFileRequested", "onCopyEntryRequested",
   "onMoveEntryRequested"}

\* The path a mutating request invalidates: the deleted or created path, the
\* target of a copy or move.
MutatedPath(r) ==
  CASE r.kind = "onDeleteEntryRequested" -> r.o.entryPath
    [] r.kind = "onCreateFileRequested" -> r.o.filePath
    [] OTHER -> r.o.targetPath

\* C1: when deleteEntry(p), createFile(p), copyEntry(_, p) or moveEntry(_, p)
\* has completed successfully on a mount, the cache of the mount holds no
\* entry for p, so a getMetadata(p) delivered next is not answered from the
\* cache: it awaits a remote stat of p.
C1_MutationEvictsPath ==
  (done.req.kind \in MutatingKinds /\ done.outcome.ok) =>
    LET fs == done.req.o.fileSystemId
        p == MutatedPath(done.req)
    IN /\ Has(metadataCacheMap, fs)
       /\ ~CacheGet(metadataCacheMap[fs], p).fileExists
       /\ AwaitsStat(GetMetadataNow(fs, p), p)

\* C1 witness: a copy onto p completed although the listing of p's directory,
\* which names p, was cached before and is cached still.
C1_Witness ==
  /\ Succeeded("onCopyEntryRequested")
  /\ CacheGet(metadataCacheMap[done.req.o.fileSystemId],
              done.req.o.targetPath).directoryExists
  /\ ~CacheGet(metadataCacheMap[done.req.o.fileSystemId],
               done.req.o.targetPath).fileExists

\* The mount fs is registered with the host and has its adapter, whose
\* account the server accepts, and its cache.
Healthy(fs) ==
  /\ fs \in hostMounted
  /\ Has(webDAVClientMap, fs)
  /\ webDAVClientMap[fs] \in reachable
  /\ Has(metadataCacheMap, fs)

\* A write-mode open completed on a healthy mount with no network failure.
WriteOpenCompleted ==
  /\ Completed("onOpenFileRequested")
  /\ done.req.o.mode = "WRITE"
  /\ Healthy(done.req.o.fileSystemId)
  /\ faults = 0

\* The data of the chunks, concatenated in offset order.
RECURSIVE ConcatByOffset(_)
ConcatByOffset(chunks) ==
  IF chunks = {} THEN <<>>
  ELSE LET c == CHOOSE c \in chunks : \A d \in chunks : c.offset <= d.offset
       IN c.data \o ConcatByOffset(chunks \ {c})

\* C2: a write-mode open on a healthy mount succeeds and registers its handle,
\* and when the close of a write-mode handle has succeeded, the resource at
\* the handle's path holds the chunks the host wrote through the handle,
\* concatenated in offset order.
C2_WriteSessionRoundTrip ==
  /\ WriteOpenCompleted =>
       /\ done.outcome.ok
       /\ Has(openedFilesMap, done.req.o.requestId)
  /\ (Succeeded("onCloseFileRequested") /\ done.req.loc.mode = "WRITE") =>
       LET fs == done.req.o.fileSystemId
       IN /\ Has(webDAVClientMap, fs)
          /\ remote[webDAVClientMap[fs]].files[done.req.loc.filePath] =
               FileNode(ConcatByOffset(done.wrote))

\* The suspended call in slot s runs its next step.
Stepped(s) == reqs'[s].kind = "none" \/ reqs'[s].pc # reqs[s].pc

\* C3: a mount call made while the host has the identity registered returns
\* in its next step having asked the host only, and that step changes neither
\* the host's table, nor the adapters, nor the caches, nor the persisted
\* records, nor any server.
C3_SecondMountNoOp ==
  [][\A s \in Slots :
       (/\ reqs[s].kind = "mount"
        /\ IdOf(reqs[s].o) \in reqs[s].at.host
        /\ Stepped(s))
       => /\ reqs'[s] = NoReq
          /\ done'.req.kind = "mount"
          /\ done'.req.o = reqs[s].o
          /\ done'.req.calls = <<[op |-> "host.get"]>>
          /\ done'.outcome = ReturnNothing
          /\ UNCHANGED <<hostMounted, storage, remote, webDAVClientMap,
                         metadataCacheMap, openedFilesMap, openedFsKeys>>]_vars

\* C3 witness: a mount call made right after a mount of the same identity had
\* run to its end (five awaited calls, the last one the write of the persisted
\* record) has returned having asked the host only.
C3_Witness ==
  /\ Succeeded("mount")
  /\ done.req.calls = <<[op |-> "host.get"]>>
  /\ done.req.at.after.kind = "mount"
  /\ done.req.at.after.ok
  /\ done.req.at.after.calls = 5
  /\ IdOf(done.req.at.after.o) = IdOf(done.req.o)

\* C4: when an unmount(id) requested after start-up has succeeded, the mount
\* has no adapter, no cache and no persisted record, no handle opened on it is
\* left in the handle table, and the unmount issued no move.
C4_UnmountDiscardsHandles ==
  (Succeeded("onUnmountRequested") /\ done.req.at.resumed) =>
    LET fs == done.req.o.fileSystemId
    IN /\ ~Has(webDAVClientMap, fs)
       /\ ~Has(metadataCacheMap, fs)
       /\ KeyIndex(storage.recs, fs) = 0
       /\ \A id \in DOMAIN openedFilesMap : openedFilesMap[id].openedOn # fs
       /\ \A i \in 1..Len(done.req.calls) : done.req.calls[i].op # "move"

\* C5: a getMetadata request with no thumbnail that read the cache was
\* answered with the cached metadata and no remote call when the cache
\* reported both the listing of the parent and the entry as present;
\* otherwise it made exactly one remote call, a stat of the path, and
\* returned the translation of the stat, or failed as the stat failed.
C5_MetadataFromCacheOrStat ==
  (/\ Completed("onGetMetadataRequested")
   /\ ~done.req.o.thumbnail
   /\ Has(webDAVClientMap, done.req.o.fileSystemId)
   /\ Len(done.req.calls) >= 1)
  => LET calls == done.req.calls
         got == calls[1].result
     IN /\ calls[1].op = "cache.get"
        /\ calls[1].path = done.req.o.entryPath
        /\ IF got.directoryExists /\ got.fileExists
           THEN /\ Len(calls) = 1
                /\ done.outcome =
                     Return(<<canonicalizedMetadata(got.metadata, done.req.o.want)>>)
           ELSE /\ Len(calls) = 2
                /\ calls[2] = [op |-> "stat", path |-> done.req.o.entryPath]
                /\ IF done.req.reply.ok
                   THEN done.outcome =
                          Return(<<canonicalizedMetadata(fromStat(done.req.reply.val),
                                                         done.req.o.want)>>)
                   ELSE done.outcome = Throw(done.req.reply.error)

\* C5 witness: a getMetadata request was answered from the cache.
C5_Witness ==
  /\ Succeeded("onGetMetadataRequested")
  /\ ~done.req.o.thumbnail
  /\ Len(done.req.calls) = 1
  /\ done.req.calls[1].result.directoryExists
  /\ done.req.calls[1].result.fileExists

\* C6: a write-mode open on a healthy mount registers a handle whose staging
\* container exists on the server and is the container of no other handle,
\* and a staging container holds no chunk but those the host wrote through
\* the handle it belongs to.
C6_DistinctStaging ==
  /\ WriteOpenCompleted =>
       LET id == done.req.o.requestId
           srv == remote[webDAVClientMap[done.req.o.fileSystemId]]
       IN /\ Has(openedFilesMap, id)
          /\ Has(srv.staging, "/" \o openedFilesMap[id].uuid)
          /\ \A other \in DOMAIN openedFilesMap \ {id} :
               openedFilesMap[other].uuid # openedFilesMap[id].uuid
  /\ \A id \in DOMAIN openedFilesMap :
       LET h == openedFilesMap[id]
           container == "/" \o h.uuid
       IN (h.mode = "WRITE" /\ Has(webDAVClientMap, h.openedOn)
           /\ Has(hostOpen, <<h.openedOn, id>>)
           /\ Has(remote[webDAVClientMap[h.openedOn]].staging, container))
          => \A name \in DOMAIN remote[webDAVClientMap[h.openedOn]].staging[container] :
               \E c \in hostOpen[<<h.openedOn, id>>] :
                 name = Basename(uploadPath(h.uuid, c.offset, c.offset + Len(c.data)))

\* C7: every provider request that has completed was answered with exactly
\* one callback: the success callback with the handler's result as its
\* arguments when the handler succeeded, otherwise the error callback, whose
\* reason is NOT_FOUND when the call the handler awaited last was answered
\* 404 and FAILED in every other case.
C7_ExactlyOneCallback ==
  IsProviderHandler(done.req.kind) =>
    /\ Len(done.callbacks) = 1
    /\ IF done.outcome.ok
       THEN done.callbacks[1] =
              [callback |-> "success",
               args |-> IF done.outcome.defined THEN done.outcome.val ELSE <<>>]
       ELSE /\ done.callbacks[1].callback = "error"
            /\ done.callbacks[1].reason =
                 IF done.req.reply = Fail(Err404) THEN "NOT_FOUND" ELSE "FAILED"

\* C7 witness: a request was answered NOT_FOUND.
C7_Witness ==
  /\ Completed("onGetMetadataRequested")
  /\ done.callbacks = <<[callback |-> "error", reason |-> "NOT_FOUND"]>>

\* What a getMetadata(p) request asking for a thumbnail would do if it were
\* delivered in the current state.
ThumbnailNow(fs, p) ==
  onGetMetadataRequested(World,
                         NewReq("onGetMetadataRequested",
                                [fileSystemId |-> fs, entryPath |-> p,
                                 thumbnail |-> TRUE, want |-> MetadataFields]),
                         FALSE)

\* C8 (as stated): a getMetadata request asking for a thumbnail fails with a
\* reason of its own, which is not the generic failure reason, having called
\* neither the remote client nor the cache.
C8_ThumbnailOwnReason ==
  (Completed("onGetMetadataRequested") /\ done.req.o.thumbnail) =>
    /\ ~done.outcome.ok
    /\ done.req.calls = <<>>
    /\ Len(done.callbacks) = 1
    /\ done.callbacks[1].callback = "error"
    /\ done.callbacks[1].reason # "FAILED"

\* C8 (amended): a getMetadata request asking for a thumbnail fails with the
\* generic failure reason FAILED, having called neither the remote client nor
\* the cache, and it would in every state, for every identity, mounted or
\* not, and every path, whatever the cache holds.
C8_ThumbnailFails ==
  /\ (Completed("onGetMetadataRequested") /\ done.req.o.thumbnail) =>
       /\ done.outcome = Throw(ErrThumbnail)
       /\ done.req.calls = <<>>
       /\ done.callbacks = <<[callback |-> "error", reason |-> "FAILED"]>>
  /\ \A fs \in FsIds, p \in AllPaths :
       LET res == ThumbnailNow(fs, p)
       IN /\ ~res.susp
          /\ res.outcome = Throw(ErrThumbnail)
          /\ res.req.calls = <<>>
          /\ res.w = World
          /\ Listener(res.outcome) = <<[callback |-> "error", reason |-> "FAILED"]>>

\* C8 witness: a thumbnail was asked of an entry the cache holds.
C8_Witness ==
  /\ Completed("onGetMetadataRequested")
  /\ done.req.o.thumbnail
  /\ LET got == CacheGet(metadataCacheMap[done.req.o.fileSystemId],
                         done.req.o.entryPath)
     IN got.directoryExists /\ got.fileExists

\* The record c can be resumed by the resumeMounts call r: the server accepts
\* its account and the host did not have its identity registered.
Resumable(r, c) == c \in reachable /\ IdOf(c) \notin r.at.host

\* C9: when a resumeMounts call made after start-up has completed, with no
\* network failure, every persisted record it read that can be resumed is
\* registered with the host and has its adapter and an empty cache, whether
\* or not another record failed.
C9_ResumeIsolatesFailures ==
  (/\ Completed("resumeMounts")
   /\ done.req.at.resumed
   /\ faults = 0
   /\ done.req.calls[1] = [op |-> "storage.get"]
   /\ Len(done.req.calls) >= 2)
  => \A i \in 1..Len(done.req.loc.list) :
       LET c == done.req.loc.list[i]
       IN Resumable(done.req, c) =>
            /\ IdOf(c) \in hostMounted
            /\ Has(webDAVClientMap, IdOf(c))
            /\ Has(metadataCacheMap, IdOf(c))
            /\ metadataCacheMap[IdOf(c)] = NewMetadataCache

\* C10: when the listing of the root that mount awaits has failed, the next
\* step of the call ends it with that failure, the host not having been asked
\* to register anything, and changes neither the host's table, nor the
\* adapters, nor the caches, nor the persisted records.
C10_FailedValidationRegistersNothing ==
  [][\A s \in Slots :
       (/\ reqs[s].kind = "mount"
        /\ reqs[s].pc = "list"
        /\ ~reqs[s].reply.ok
        /\ Stepped(s))
       => /\ reqs'[s] = NoReq
          /\ done'.req.kind = "mount"
          /\ done'.outcome = Throw(reqs[s].reply.error)
          /\ done'.req.calls = <<[op |-> "host.get"], [op |-> "list", path |-> "/"]>>
          /\ UNCHANGED <<hostMounted, storage, webDAVClientMap, metadataCacheMap,
                         openedFilesMap, openedFsKeys>>]_vars

\* C10 witness: a mount was rejected by the server, and the identity has
\* neither a registration, nor an adapter, nor a cache, nor a record.
C10_Witness ==
  /\ Completed("mount")
  /\ done.outcome = Throw(Err401)
  /\ IdOf(done.req.o) \notin hostMounted
  /\ ~Has(webDAVClientMap, IdOf(done.req.o))
  /\ ~Has(metadataCacheMap, IdOf(done.req.o))
  /\ KeyIndex(storage.recs, IdOf(done.req.o)) = 0

\* The identities of the persisted records.
RecordIds(store) == {store.recs[i].key : i \in 1..Len(store.recs)}

\* The constructor's #resume runs its continuation in this step.
ResumeCompletes == reqs[0].kind = "#resume" /\ reqs'[0].kind = "none"

\* C11 (as stated): when the start-up resume has completed, the identities
\* with an adapter and an empty cache are those of the persisted records,
\* each of them validated by a root listing and registered with the host.
C11_ResumeValidatesAndRegisters ==
  Completed("#resume") =>
    LET ids == RecordIds(done.req.reply)
    IN /\ \A id \in ids :
            /\ Has(webDAVClientMap, id)
            /\ Has(metadataCacheMap, id)
            /\ id \in hostMounted
       /\ Len(done.req.calls) >= 1 + Len(done.req.reply.recs)
       /\ \A i \in 2..Len(done.req.calls) : done.req.calls[i].op = "list"

\* C11 (amended): the step that completes the start-up resume gives every
\* persisted record it read the adapter of its account and an empty cache,
\* leaves the adapter and the cache of every other identity as they were,
\* and neither lists a root nor calls the host: the servers and the host's
\* table are as before, and the one call it has awaited is the storage read.
C11_ResumeInstallsUnvalidated ==
  [][ResumeCompletes =>
       LET ids == RecordIds(reqs[0].reply)
       IN /\ done'.req.kind = "#resume"
          /\ done'.req.calls = <<[op |-> "storage.get"]>>
          /\ \A i \in 1..Len(reqs[0].reply.recs) :
               LET rec == reqs[0].reply.recs[i]
               IN /\ Has(webDAVClientMap', IdOf(rec.value))
                  /\ IdOf(webDAVClientMap'[IdOf(rec.value)]) = IdOf(rec.value)
                  /\ Has(metadataCacheMap', IdOf(rec.value))
                  /\ metadataCacheMap'[IdOf(rec.value)] = NewMetadataCache
          /\ \A id \in FsIds \ {IdOf(reqs[0].reply.recs[i].value) :
                                  i \in 1..Len(reqs[0].reply.recs)} :
               /\ Has(webDAVClientMap', id) = Has(webDAVClientMap, id)
               /\ Has(metadataCacheMap', id) = Has(metadataCacheMap, id)
               /\ Has(webDAVClientMap, id) => webDAVClientMap'[id] = webDAVClientMap[id]
               /\ Has(metadataCacheMap, id) => metadataCacheMap'[id] = metadataCacheMap[id]
          /\ UNCHANGED <<hostMounted, remote, storage>>]_vars

\* C11 witness: the start-up resume has completed with two records read, the
\* host having neither registered and the server rejecting the account of
\* one, and both have an adapter and an empty cache.
C11_Witness ==
  /\ Completed("#resume")
  /\ Len(done.req.reply.recs) = 2
  /\ hostMounted = {}
  /\ CfgA \notin reachable
  /\ Has(webDAVClientMap, IdOf(CfgA))
  /\ Has(webDAVClientMap, IdOf(CfgC))
  /\ metadataCacheMap[IdOf(CfgA)] = NewMetadataCache

\* C12: a write-mode open on a mount that has its adapter makes exactly one
\* remote call, the creation of the staging container named by its session
\* identifier; when the creation has succeeded the open succeeds and its
\* handle, with the path, the mode and the session identifier, is in the
\* table, and when it has failed the open fails and registers no handle.
C12_WriteOpenCreatesContainer ==
  (/\ Completed("onOpenFileRequested")
   /\ done.req.o.mode = "WRITE"
   /\ Has(webDAVClientMap, done.req.o.fileSystemId))
  => /\ Len(done.req.calls) = 1
     /\ done.req.calls[1].op = "mkcol"
     /\ IF done.req.reply.ok
        THEN /\ done.outcome.ok
             /\ Has(openedFilesMap, done.req.o.requestId)
             /\ openedFilesMap[done.req.o.requestId].filePath = done.req.o.filePath
             /\ openedFilesMap[done.req.o.requestId].mode = "WRITE"
             /\ done.req.calls[1].path =
                  "/" \o openedFilesMap[done.req.o.requestId].uuid
        ELSE /\ ~done.outcome.ok
             /\ ~Has(openedFilesMap, done.req.o.requestId)

\* The cache of the mount holds an entry for the path.
Cached(fs, p) == Has(metadataCacheMap, fs) /\ CacheGet(metadataCacheMap[fs], p).fileExists

\* C13: a createDirectory on a healthy mount calls the adapter's directory
\* creation on its path, a truncate that has fetched its file uploads to the
\* file's path, and when a createDirectory, a truncate or a writeFile has
\* succeeded the cache holds no entry for the path it changed.
C13_MutationCallsAndEvicts ==
  /\ (Completed("onCreateDirectoryRequested") /\ Healthy(done.req.o.fileSystemId))
     => /\ Len(done.req.calls) = 1
        /\ done.req.calls[1] = [op |-> "mkcol", path |-> done.req.o.directoryPath]
        /\ done.outcome.ok =>
             ~Cached(done.req.o.fileSystemId, done.req.o.directoryPath)
  /\ (Completed("onTruncateRequested") /\ Len(done.req.calls) = 2)
     => /\ done.req.calls[2].op = "put"
        /\ done.req.calls[2].path = done.req.o.filePath
        /\ done.outcome.ok => ~Cached(done.req.o.fileSystemId, done.req.o.filePath)
  /\ (Succeeded("onWriteFileRequested") /\ Has(openedFilesMap, done.req.o.openRequestId))
     => ~Cached(done.req.o.fileSystemId,
                openedFilesMap[done.req.o.openRequestId].filePath)

\* C14: when the remote delete that a deleteEntry request issued has failed,
\* the request is answered with an error and the path is still cached if it
\* was; and a request whose last awaited remote call failed is answered with
\* an error.
C14_DeleteFailureSurfaces ==
  /\ (/\ Completed("onDeleteEntryRequested")
      /\ Len(done.req.calls) = 1
      /\ ~done.req.loc.unawaited.ok)
     => /\ ~done.outcome.ok
        /\ done.callbacks[1].callback = "error"
  /\ (/\ IsProviderHandler(done.req.kind)
      /\ Len(done.req.calls) >= 1
      /\ done.req.calls[Len(done.req.calls)].op \in NetworkOps
      /\ done.req.kind # "onDeleteEntryRequested")
     => (~done.req.reply.ok => ~done.outcome.ok)

\* The first n elements of c, or c when it is shorter.
Prefix(c, n) == SubSeq(c, 1, IF n < Len(c) THEN n ELSE Len(c))

\* C16: a truncate(path, length) that has fetched the content c of its file
\* makes two remote calls, the fetch of path and an upload to path, and when
\* it has succeeded the resource at path holds the first min(length, |c|)
\* bytes of c.
C16_TruncateKeepsPrefix ==
  (/\ Completed("onTruncateRequested")
   /\ Len(done.req.calls) = 2
   /\ Has(webDAVClientMap, done.req.o.fileSystemId))
  => LET p == done.req.o.filePath
         srv == remote[webDAVClientMap[done.req.o.fileSystemId]]
     IN /\ done.req.calls[1] = [op |-> "get", path |-> p]
        /\ done.req.calls[2].op = "put"
        /\ done.req.calls[2].path = p
        /\ done.req.calls[2].data = Prefix(done.req.loc.buffer, done.req.o.length)
        /\ done.outcome.ok =>
             srv.files[p] = FileNode(Prefix(done.req.loc.buffer, done.req.o.length))

\* A handle as a write-mode open stores it: { filePath, mode, uuid }.
WriteHandle(fs, p) ==
  [filePath |-> p, mode |-> "WRITE", uuid |-> Uuid(1), openedOn |-> fs]

\* The close of handle id of mount fs, were the handle a write-mode handle
\* for p: its run up to the first await.
CloseWriteNow(fs, id, p, fault) ==
  onCloseFileRequested([World EXCEPT !.opened = MapPut(@, id, WriteHandle(fs, p))],
                       NewReq("onCloseFileRequested",
                              [fileSystemId |-> fs, openRequestId |-> id]),
                       fault)

\* The close `res` suspended at its move, resumed with the answer x.
CloseWriteThen(res, x) ==
  onCloseFileRequested(res.w, [res.req EXCEPT !.reply = x], FALSE)

\* What a suspended close of a write-mode handle for p has done.
MoveIssued(res, id, p) ==
  /\ res.susp
  /\ res.req.calls = <<[op |-> "move", path |-> "/" \o Uuid(1) \o "/.file", to |-> p]>>
  /\ Has(res.w.opened, id)

C17_HandlesScopedToMount ==
  \A k \in DOMAIN hostOpen :
    /\ Has(openedFilesMap, k[2])
    /\ openedFilesMap[k[2]].openedOn = k[1]

\* The identity a mount call is for.
MountId(r) == createFileSystemID(r.o.url, r.o.username)

\* The mount call of slot s takes the step that follows the host's answer
\* to its registration and goes on: the step in which it installs its
\* adapter and cache.
Installs(s) ==
  /\ reqs[s].kind = "mount"
  /\ reqs[s].pc = "hostMount"
  /\ reqs'[s].kind = "mount"
  /\ reqs'[s].pc = "storageGet"

\* The mount call of slot s, its listing answered, asks the host to register.
Registers(s) ==
  /\ reqs[s].kind = "mount"
  /\ reqs[s].pc = "list"
  /\ reqs'[s].kind = "mount"
  /\ reqs'[s].pc = "hostMount"

Quiescent == \A s \in Slots \cup {0} : reqs[s].kind = "none"

\* C19: when every mount and unmount call has completed, the record store
\* holds a record for exactly the identities the host has mounted.
C19_StoreMatchesMounted ==
  Quiescent => RecordIds(storage) = hostMounted

\* A request that changes the server's tree is in flight on mount fs.
MutationInFlight(fs) ==
  \E s \in Slots :
    /\ reqs[s].kind \in MutatingKinds \cup {"onCreateDirectoryRequested",
                                            "onTruncateRequested",
                                            "onWriteFileRequested",
                                            "onCloseFileRequested"}
    /\ reqs[s].o.fileSystemId = fs

\* The answer `res` of a getMetadata(p) is the metadata of the resource the
\* server of mount fs holds at p now.
AnswersCurrent(res, fs, p) ==
  LET node == remote[webDAVClientMap[fs]].files[p]
  IN /\ node.type # "none"
     /\ res.outcome = Return(<<canonicalizedMetadata(fromStat(StatOf(p, node)),
                                                    MetadataFields)>>)

\* C20: when a readDirectory of d has stored its listing and no mutating
\* request is in flight on the mount, a getMetadata of a child p of d that
\* is answered from the cache is answered with the metadata of the resource
\* now at p, not with metadata from before a mutation of p that completed
\* in the meantime.
C20_ListingNotStaleAfterMutation ==
  (/\ Succeeded("onReadDirectoryRequested")
   /\ Healthy(done.req.o.fileSystemId)
   /\ ~MutationInFlight(done.req.o.fileSystemId))
  => \A p \in AllPaths \ {Root} :
       (/\ ParentOf(p) = done.req.o.directoryPath
        /\ ~GetMetadataNow(done.req.o.fileSystemId, p).susp)
       => AnswersCurrent(GetMetadataNow(done.req.o.fileSystemId, p),
                         done.req.o.fileSystemId, p)

====
